---- MODULE Spec2Model ----
(***************************************************************************)
(* Views over a resizable target sequence (views/views.py).                *)
(*                                                                         *)
(* A View wraps a target list and follows it; a WindowedView holds a       *)
(* frozen sequence of windowing indices into the target.  The target is    *)
(* owned by the caller and may grow or shrink between any two steps.       *)
(***************************************************************************)
EXTENDS Integers, Sequences, FiniteSets, TLC

VARIABLES
    target,     \* the first target list (a Python list of elements)
    target2,    \* a second target list (used when two views are compared)
    lists,      \* heap of index-list objects: "arg" is the caller's list,
                \* "win" / "win2" are the lists owned by `view` / `other`
    view,       \* the view under test: [kind, tgt, window]
    other,      \* a second view: the right operand of ==, or a slice result
    dyn,        \* open window (start, stop, step) of a windowed dynamic View
    gen,        \* the generator of the iteration in progress
    result,     \* outcome of the last call made since the target last changed
    win0,       \* history: the index sequence `view` was constructed with
    ref,        \* history: the elements list slicing gives for the same specs
    changed     \* history: the target was resized since the first slice

vars == <<target, target2, lists, view, other, dyn, gen, result, win0, ref, changed>>

-----------------------------------------------------------------------------
(* Bounds *)

MaxLen == 3     \* longest target
MaxWin == 1     \* longest window passed by a caller
NumElem == 2    \* distinct element values
EqLen == 2      \* longest target when two views are compared
MaxOff == 2     \* how far beyond the target an open window bound may lie
MaxStep == 2    \* largest stride |step| of a slice or open window

None == 0 - 99  \* Python's None (absent index / default value)

Elem == 1..NumElem

RECURSIVE SeqsUpTo(_, _)
SeqsUpTo(S, n) ==
    IF n = 0 THEN {<<>>}
    ELSE LET shorter == SeqsUpTo(S, n - 1)
         IN  shorter \cup {Append(s, x) : s \in {t \in shorter : Len(t) = n - 1}, x \in S}

Targets == SeqsUpTo(Elem, MaxLen)
Idx == (0 - MaxLen)..(MaxLen - 1)
Windows == SeqsUpTo(Idx, MaxWin)
Keys == (0 - MaxLen - 1)..MaxLen
Defaults == {None, 1}

-----------------------------------------------------------------------------
(* Python built-ins the views rely on *)

\* a % b with the sign of the divisor (floored), b # 0
PyMod(a, b) == IF b > 0 THEN a % b ELSE 0 - ((0 - a) % (0 - b))

Min(a, b) == IF a < b THEN a ELSE b
Max(a, b) == IF a > b THEN a ELSE b

\* len(range(start, stop, step)), step # 0
RangeLen(start, stop, step) ==
    IF step > 0 /\ start < stop THEN ((stop - start - 1) \div step) + 1
    ELSE IF step < 0 /\ start > stop THEN ((start - stop - 1) \div (0 - step)) + 1
    ELSE 0

\* list(range(start, stop, step))
RangeSeq(start, stop, step) ==
    [k \in 1..RangeLen(start, stop, step) |-> start + (k - 1) * step]

\* i is a valid index of a sequence of length n: -n <= i < n
InRange(i, n) == (0 - n) <= i /\ i < n

\* seq[i] for a valid Python index i
SeqGetItem(seq, i) == IF i >= 0 THEN seq[i + 1] ELSE seq[Len(seq) + i + 1]

\* slice(start, stop, step).indices(n): every bound is clamped, none aligned
SliceIndices(s, n) ==
    LET step  == IF s.step = None THEN 1 ELSE s.step
        lower == IF step > 0 THEN 0 ELSE 0 - 1
        upper == IF step > 0 THEN n ELSE n - 1
        start == IF s.start = None THEN (IF step < 0 THEN upper ELSE lower)
                 ELSE IF s.start < 0 THEN Max(s.start + n, lower)
                 ELSE Min(s.start, upper)
        stop  == IF s.stop = None THEN (IF step < 0 THEN lower ELSE upper)
                 ELSE IF s.stop < 0 THEN Max(s.stop + n, lower)
                 ELSE Min(s.stop, upper)
    IN  [start |-> start, stop |-> stop, step |-> step]

\* seq[start:stop:step] of a list or a range
SeqGetSlice(seq, s) ==
    LET r == SliceIndices(s, Len(seq))
    IN  [k \in 1..RangeLen(r.start, r.stop, r.step) |->
            seq[r.start + (k - 1) * r.step + 1]]

\* reversed(seq)
Reversed(seq) == [k \in 1..Len(seq) |-> seq[Len(seq) - k + 1]]

-----------------------------------------------------------------------------
(* Outcomes of calls *)

\* op: the call; out: "value" or the exception raised; val: the value returned;
\* key: the index asked for (for an iteration step, the position of the window
\* entry in iteration order); dflt: the default passed; cnt: values the
\* iteration yielded before this step; dirty: the target was resized after the
\* iteration's first step; rev: the iteration runs in reverse
NoResult == [op |-> "none", out |-> "none", val |-> None, key |-> None,
             dflt |-> None, cnt |-> 0, dirty |-> FALSE, rev |-> FALSE]

Returned(op, key, v) == [NoResult EXCEPT !.op = op, !.out = "value", !.val = v, !.key = key]

Raised(op, key, exc) == [NoResult EXCEPT !.op = op, !.out = exc, !.key = key]

NoGen == [kind |-> "none", rev |-> FALSE, started |-> FALSE, pos |-> 0,
          cnt |-> 0, n |-> 0, dflt |-> None, dirty |-> FALSE]

\* depth: how many slicings made the view (0 for a constructed one)
NoView == [kind |-> "none", tgt |-> 1, window |-> "none", passed |-> FALSE,
           depth |-> 0]
NoDyn == [start |-> None, stop |-> None, step |-> None]
NoLists == [arg |-> <<>>, win |-> <<>>, win2 |-> <<>>, none |-> <<>>]

\* the live target list a view refers to
Tgt(v) == IF v.tgt = 1 THEN target ELSE target2

\* the index list a windowed view holds
Window(v) == lists[v.window]

IdxN == {None} \cup ((0 - MaxLen - 1)..(MaxLen + 1))
Steps == {None} \cup (((0 - MaxStep)..MaxStep) \ {0})
Slices == [start : IdxN, stop : IdxN, step : Steps]
FewSlices == [start : {None, 1}, stop : {None, 0 - 1}, step : {None, 0 - 1}]

-----------------------------------------------------------------------------
(* WindowedView *)

\* range(len(target)): the window when none is passed
DefaultWindow(tgt) == RangeSeq(0, Len(tgt), 1)

\* a wrong construction: the view keeps the caller's own list object
copy_alias(id) == id

\* copy.copy(window): the list object the view keeps is a new one ("win"),
\* holding the entries the caller's list has at construction
copy_copy(id) == "win"

\* WindowedView(target, window): the heap and the view after construction
WindowedView__init__(passed, w, tgt) ==
    [heap |-> [NoLists EXCEPT !.arg = IF passed THEN w ELSE <<>>,
                              !.win = IF passed THEN w ELSE DefaultWindow(tgt)],
     self |-> [NoView EXCEPT !.kind = "WindowedView", !.passed = passed,
                             !.window = IF passed THEN copy_copy("arg") ELSE "win"]]

\* a wrong length: only the entries inside the live target are counted
WindowedView__len__live(window) ==
    Cardinality({k \in 1..Len(window) : InRange(window[k], Len(target))})

\* WindowedView.__len__
WindowedView__len__(window) == Len(window)

\* a wrong lookup: a stale windowing index escapes as a plain IndexError
WindowedView__getitem__plain(window, tgt, key) ==
    IF ~InRange(key, Len(window)) THEN Raised("getitem", key, "IndexError")
    ELSE LET subkey == SeqGetItem(window, key)
         IN  IF ~InRange(subkey, Len(tgt)) THEN Raised("getitem", key, "IndexError")
             ELSE Returned("getitem", key, SeqGetItem(tgt, subkey))

\* WindowedView.__getitem__ with an integer key
WindowedView__getitem__(window, tgt, key) ==
    IF ~InRange(key, Len(window)) THEN Raised("getitem", key, "IndexError")
    ELSE LET subkey == SeqGetItem(window, key)
         IN  IF ~InRange(subkey, Len(tgt))
             THEN Raised("getitem", key, "WindowingIndexError")
             ELSE Returned("getitem", key, SeqGetItem(tgt, subkey))

\* WindowedView.__getitem__ with a slice key: the window of the new view
WindowedView__getitem__slice(window, s) == SeqGetSlice(window, s)

\* a wrong get: negative windowing indices are taken for stale
WindowedView_get_nonneg(window, tgt, key, default) ==
    IF ~InRange(key, Len(window)) THEN Raised("get", key, "IndexError")
    ELSE LET subkey == SeqGetItem(window, key)
             n == Len(tgt)
         IN  [Returned("get", key,
                       IF 0 <= subkey /\ subkey < n THEN SeqGetItem(tgt, subkey)
                       ELSE default)
              EXCEPT !.dflt = default]

\* WindowedView.get(key, default)
WindowedView_get(window, tgt, key, default) ==
    IF ~InRange(key, Len(window)) THEN Raised("get", key, "IndexError")
    ELSE LET subkey == SeqGetItem(window, key)
             n == Len(tgt)
         IN  [Returned("get", key,
                       IF InRange(subkey, n) THEN SeqGetItem(tgt, subkey)
                       ELSE default)
              EXCEPT !.dflt = default]

\* the window entries in the order the generator g visits them
Order(window, g) == IF g.rev THEN Reversed(window) ELSE window

\* a wrong iteration: stale entries are passed over silently
WindowedView__iter__skip(window, tgt, g) ==
    LET order == Order(window, g)
        live == {p \in g.pos..(Len(order) - 1) : InRange(order[p + 1], Len(tgt))}
    IN  IF live = {}
        THEN [Raised("next", g.pos, "StopIteration")
              EXCEPT !.cnt = g.cnt, !.dirty = g.dirty, !.rev = g.rev]
        ELSE LET p == CHOOSE q \in live : \A r \in live : q <= r
             IN  [Returned("next", p, SeqGetItem(tgt, order[p + 1]))
                  EXCEPT !.cnt = g.cnt, !.dirty = g.dirty, !.rev = g.rev]

\* one next() on WindowedView.__iter__ / __reversed__
WindowedView__iter__(window, tgt, g) ==
    LET order == Order(window, g)
        r == IF g.pos >= Len(order) THEN Raised("next", g.pos, "StopIteration")
             ELSE LET subkey == order[g.pos + 1]
                  IN  IF ~InRange(subkey, Len(tgt))
                      THEN Raised("next", g.pos, "WindowingIndexError")
                      ELSE Returned("next", g.pos, SeqGetItem(tgt, subkey))
    IN  [r EXCEPT !.cnt = g.cnt, !.dirty = g.dirty, !.rev = g.rev]

\* the target length get_each works with: read once, when the generator
\* body starts at the first next()
GetEachN(tgt, g) == IF g.started THEN g.n ELSE Len(tgt)

\* one next() on WindowedView.get_each(default)
WindowedView_get_each(window, tgt, g) ==
    LET n == GetEachN(tgt, g)
        r == IF g.pos >= Len(window) THEN Raised("get_each", g.pos, "StopIteration")
             ELSE LET subkey == window[g.pos + 1]
                  IN  IF InRange(subkey, n)
                      THEN IF InRange(subkey, Len(tgt))
                           THEN Returned("get_each", g.pos, SeqGetItem(tgt, subkey))
                           ELSE Raised("get_each", g.pos, "IndexError")
                      ELSE Returned("get_each", g.pos, g.dflt)
    IN  [r EXCEPT !.cnt = g.cnt, !.dirty = g.dirty, !.dflt = g.dflt]

-----------------------------------------------------------------------------
(* View *)

\* a wrong length: the length the target had when the view was made
View__len__cached(tgt) == Len(win0)

\* View.__len__
View__len__(tgt) == Len(tgt)

\* a wrong slicing: the step of the slice is dropped
View__getitem__slice_nostep(tgt, s) ==
    LET r == SliceIndices(s, View__len__(tgt))
    IN  RangeSeq(r.start, r.stop, 1)

\* View.__getitem__ with a slice key: the window handed to the WindowedView
\* it returns, range(*key.indices(len(self)))
View__getitem__slice(tgt, s) ==
    LET r == SliceIndices(s, View__len__(tgt))
    IN  RangeSeq(r.start, r.stop, r.step)

\* len(v), dispatched on the class of v
length(v) ==
    IF v.kind = "View" THEN View__len__(Tgt(v)) ELSE WindowedView__len__(Window(v))

\* what the p-th next() on iter(v) gives: View.__iter__ yields from the
\* target, WindowedView.__iter__ looks the windowing index up
ItemAt(v, p) ==
    IF v.kind = "View" THEN [ok |-> TRUE, val |-> Tgt(v)[p + 1]]
    ELSE LET subkey == Window(v)[p + 1]
         IN  IF InRange(subkey, Len(Tgt(v)))
             THEN [ok |-> TRUE, val |-> SeqGetItem(Tgt(v), subkey)]
             ELSE [ok |-> FALSE, val |-> None]

\* a wrong equality: views of equal length are equal
View__eq__lenonly(a, b) ==
    Returned("eq", None, IF length(a) = length(b) THEN 1 ELSE 0)

\* View.__eq__(a, b) for two views: 1 is True, 0 is False.  all(map(...))
\* draws one item from each view in turn and stops at the first pair that
\* differs; an item that cannot be drawn raises
View__eq__(a, b) ==
    IF length(a) # length(b) THEN Returned("eq", None, 0)
    ELSE LET n == length(a)
             stops == {p \in 0..(n - 1) :
                          \/ ~ItemAt(a, p).ok
                          \/ ~ItemAt(b, p).ok
                          \/ ItemAt(a, p).val # ItemAt(b, p).val}
         IN  IF stops = {} THEN Returned("eq", None, 1)
             ELSE LET p == CHOOSE q \in stops : \A r \in stops : q <= r
                  IN  IF ItemAt(a, p).ok /\ ItemAt(b, p).ok
                      THEN Returned("eq", None, 0)
                      ELSE Raised("eq", None, "WindowingIndexError")

-----------------------------------------------------------------------------
(* Resizing a target: the caller's own actions on its list *)

\* the generator after its target was resized
Disturbed(g) == IF g.kind # "none" /\ g.started THEN [g EXCEPT !.dirty = TRUE] ELSE g

ResizeTo(t) ==
    /\ target' = t
    /\ gen' = Disturbed(gen)
    /\ result' = NoResult
    /\ changed' = TRUE
    /\ UNCHANGED <<target2, lists, view, other, dyn, win0, ref>>

\* target.append(e)
TargetAppend ==
    \E e \in Elem : Len(target) < MaxLen /\ ResizeTo(Append(target, e))

\* target.pop()
TargetPop ==
    Len(target) > 0 /\ ResizeTo(SubSeq(target, 1, Len(target) - 1))

\* del target[0]
TargetDelFront ==
    Len(target) > 0 /\ ResizeTo(Tail(target))

\* the caller changes the list it passed as window: arg.pop()
MutateArg ==
    /\ view.passed
    /\ Len(lists.arg) > 0
    /\ lists' = [lists EXCEPT !.arg = SubSeq(lists.arg, 1, Len(lists.arg) - 1)]
    /\ UNCHANGED <<target, target2, view, other, dyn, gen, result, win0, ref, changed>>

-----------------------------------------------------------------------------
(* Calls on the WindowedView `view` *)

Idle == gen.kind = "none"

\* a call is made once the outcome of the one before was taken (Drop)
Call(r) ==
    /\ Idle
    /\ result = NoResult
    /\ result' = r
    /\ UNCHANGED <<target, target2, lists, view, other, dyn, gen, win0, ref, changed>>

\* len(view)
Len_ == Call(Returned("len", None, WindowedView__len__(Window(view))))

\* view[key]
GetItem == \E key \in Keys : Call(WindowedView__getitem__(Window(view), target, key))

\* view[start:stop:step]: a new view, dropped at once; its length is kept
GetSlice ==
    \E s \in FewSlices :
        Call(Returned("slice", None, Len(WindowedView__getitem__slice(Window(view), s))))

\* view.get(key, default)
Get ==
    \E key \in Keys, d \in Defaults :
        Call(WindowedView_get(Window(view), target, key, d))

\* the caller takes the outcome of the last call or of the ended iteration
Drop ==
    /\ Idle
    /\ result # NoResult
    /\ result' = NoResult
    /\ UNCHANGED <<target, target2, lists, view, other, dyn, gen, win0, ref, changed>>

\* iter(view) / reversed(view) / view.get_each(default): a generator is made,
\* none of its body has run
Start(kind, rev, d) ==
    /\ Idle
    /\ result = NoResult
    /\ gen' = [NoGen EXCEPT !.kind = kind, !.rev = rev, !.dflt = d]
    /\ result' = NoResult
    /\ UNCHANGED <<target, target2, lists, view, other, dyn, win0, ref, changed>>

IterStart == \E rev \in BOOLEAN : Start("iter", rev, None)

GetEachStart == \E d \in Defaults : Start("get_each", FALSE, d)

\* the generator after a step with outcome r
Advance(g, r, n) ==
    IF r.out = "value"
    THEN [g EXCEPT !.started = TRUE, !.pos = r.key + 1, !.cnt = g.cnt + 1, !.n = n]
    ELSE NoGen

\* next() on the iterator
IterNext ==
    /\ gen.kind = "iter"
    /\ LET r == WindowedView__iter__(Window(view), target, gen)
       IN  result' = r /\ gen' = Advance(gen, r, 0)
    /\ UNCHANGED <<target, target2, lists, view, other, dyn, win0, ref, changed>>

\* next() on the get_each generator
GetEachNext ==
    /\ gen.kind = "get_each"
    /\ LET r == WindowedView_get_each(Window(view), target, gen)
       IN  result' = r /\ gen' = Advance(gen, r, GetEachN(target, gen))
    /\ UNCHANGED <<target, target2, lists, view, other, dyn, win0, ref, changed>>

-----------------------------------------------------------------------------
(* A WindowedView over a target the caller keeps resizing *)

Init ==
    \E t \in Targets, passed \in BOOLEAN, w \in Windows :
        /\ passed \/ w = <<>>
        /\ target = t
        /\ target2 = <<>>
        /\ lists = WindowedView__init__(passed, w, t).heap
        /\ view = WindowedView__init__(passed, w, t).self
        /\ other = NoView
        /\ dyn = NoDyn
        /\ gen = NoGen
        /\ result = NoResult
        /\ win0 = IF passed THEN w ELSE [i \in 1..Len(t) |-> i - 1]
        /\ ref = <<>>
        /\ changed = FALSE

Next ==
    \/ TargetAppend
    \/ TargetPop
    \/ TargetDelFront
    \/ MutateArg
    \/ Len_
    \/ GetItem
    \/ GetSlice
    \/ Get
    \/ Drop
    \/ IterStart
    \/ IterNext
    \/ GetEachStart
    \/ GetEachNext

Spec == Init /\ [][Next]_vars

-----------------------------------------------------------------------------
(* Properties of the WindowedView *)

\* the element a valid index i denotes in the live list t
ElemAt(t, i) == t[(IF i < 0 THEN i + Len(t) ELSE i) + 1]

\* index i lies outside the live list t
Stale(t, i) == i < 0 - Len(t) \/ i >= Len(t)

\* the window entry an iteration step at position p looks at
EntryAt(p, rev) == IF rev THEN win0[Len(win0) - p] ELSE win0[p + 1]

\* C1: view[i] has one of three outcomes, decided by the window the view was
\* built with and the live target: IndexError when i is outside
\* [-len(window), len(window)), whatever the target's length; otherwise
\* WindowingIndexError when window[i] is outside the live target; otherwise
\* the live target's element at window[i].
C1_GetItemOutcome ==
    result.op = "getitem" =>
        LET i == result.key
            n == Len(win0)
        IN  IF i < 0 - n \/ i >= n THEN result.out = "IndexError"
            ELSE LET subindex == win0[(IF i < 0 THEN i + n ELSE i) + 1]
                 IN  IF Stale(target, subindex)
                     THEN result.out = "WindowingIndexError"
                     ELSE result.out = "value" /\ result.val = ElemAt(target, subindex)

\* the default window over a target that has since shrunk: the last index
\* fails with WindowingIndexError
C1_Witness ==
    /\ ~view.passed
    /\ Len(target) < Len(win0)
    /\ result.op = "getitem"
    /\ result.key = Len(win0) - 1
    /\ result.out = "WindowingIndexError"

\* C2: the window of a WindowedView is the index sequence it was built with
\* (0..L0-1 by default), whatever the target, the view's operations and the
\* caller's later changes to the list it passed; len(view) is its length.
C2_WindowFixed ==
    /\ Window(view) = win0
    /\ result.op = "len" => result.val = Len(win0)

\* the target was resized and the caller's list changed, and len() was asked
C2_Witness ==
    /\ view.passed
    /\ lists.arg # win0
    /\ changed
    /\ result.op = "len"
    /\ result.val = MaxWin

C7_IterationOutcome ==
    result.op = "next" =>
        /\ result.out \in {"value", "WindowingIndexError", "StopIteration"}
        /\ result.key = result.cnt
        /\ IF result.key >= Len(win0) THEN result.out = "StopIteration"
           ELSE LET subindex == EntryAt(result.key, result.rev)
                IN  IF Stale(target, subindex)
                    THEN result.out = "WindowingIndexError"
                    ELSE result.out = "value" /\ result.val = ElemAt(target, subindex)

\* the target shrank between two steps: the iteration yielded, then aborted
C7_Witness ==
    /\ result.op = "next"
    /\ result.dirty
    /\ result.cnt > 0
    /\ result.out = "WindowingIndexError"

\* C10: every step of get_each(default), also after the target was resized
\* between two yields, yields default for an entry outside the live target
\* and the live element for an entry inside it, and the iteration runs over
\* the whole window without raising.
C10_GetEachFresh ==
    result.op = "get_each" =>
        /\ result.key = result.cnt
        /\ IF result.key >= Len(win0) THEN result.out = "StopIteration"
           ELSE LET subindex == win0[result.key + 1]
                IN  /\ result.out = "value"
                    /\ result.val = IF Stale(target, subindex) THEN result.dflt
                                     ELSE ElemAt(target, subindex)

-----------------------------------------------------------------------------
(* Slicing a view, and slicing the result again *)

\* v[s] for a View or a WindowedView v: the window of the new WindowedView
SliceWindow(v, s) ==
    IF v.kind = "View" THEN View__getitem__slice(Tgt(v), s)
    ELSE WindowedView__getitem__slice(Window(v), s)

\* the view WindowedView(target, window) makes of a slice result; its window
\* is the list object "win2"
Sliced(v) ==
    [NoView EXCEPT !.kind = "WindowedView", !.tgt = v.tgt, !.window = "win2",
                   !.depth = Min(v.depth + 1, 2)]

\* other = view[s]
SliceView ==
    \E s \in Slices :
        /\ other.kind = "none"
        /\ lists' = [lists EXCEPT !.win2 = SliceWindow(view, s)]
        /\ other' = Sliced(view)
        /\ ref' = SeqGetSlice(target, s)
        /\ result' = NoResult
        /\ UNCHANGED <<target, target2, view, dyn, gen, win0, changed>>

\* other = other[s]
SliceAgain ==
    \E s \in Slices :
        /\ other.kind # "none"
        /\ lists' = [lists EXCEPT !.win2 = SliceWindow(other, s)]
        /\ other' = Sliced(other)
        /\ ref' = SeqGetSlice(ref, s)
        /\ result' = NoResult
        /\ UNCHANGED <<target, target2, view, dyn, gen, win0, changed>>

\* len(other)
LenOther ==
    /\ other.kind # "none"
    /\ result' = Returned("len", None, length(other))
    /\ UNCHANGED <<target, target2, lists, view, other, dyn, gen, win0, ref, changed>>

InitSlice ==
    \E t \in Targets, kind \in {"View", "WindowedView"} :
        /\ target = t
        /\ target2 = <<>>
        /\ lists = WindowedView__init__(FALSE, <<>>, t).heap
        /\ view = IF kind = "View" THEN [NoView EXCEPT !.kind = "View"]
                  ELSE WindowedView__init__(FALSE, <<>>, t).self
        /\ other = NoView
        /\ dyn = NoDyn
        /\ gen = NoGen
        /\ result = NoResult
        /\ win0 = [i \in 1..Len(t) |-> i - 1]
        /\ ref = <<>>
        /\ changed = FALSE

\* slicing, and slicing again, over a target that does not change
NextSlice ==
    \/ SliceView
    \/ SliceAgain

SpecSlice == InitSlice /\ [][NextSlice]_vars

\* one slicing, with the target resized before and after it
NextSliceLive ==
    \/ TargetAppend
    \/ TargetPop
    \/ TargetDelFront
    \/ SliceView
    \/ LenOther

SpecSliceLive == InitSlice /\ [][NextSliceLive]_vars

\* list(v) for a windowed view none of whose entries is stale
Elements(v) == [k \in 1..Len(Window(v)) |-> ElemAt(Tgt(v), Window(v)[k])]

\* C5: over a target that has not changed, the view made by slicing a view
\* once or twice holds only indices inside the target and yields the
\* elements that slicing the target's element list by the same specs gives.
C5_SliceComposition ==
    (other.kind # "none" /\ ~changed) =>
        /\ \A k \in 1..Len(Window(other)) : ~Stale(target, Window(other)[k])
        /\ Elements(other) = ref

\* view[1:L][1:] over an unchanged target of the greatest length L: the
\* window is that of view[2:L]
C5_Witness ==
    /\ other.depth = 2
    /\ ~changed
    /\ Len(target) = MaxLen
    /\ Window(other) = [k \in 1..(MaxLen - 2) |-> k + 1]
    /\ ref = SubSeq(target, 3, MaxLen)

\* C9 as stated: after the target is resized, the length of a view made by
\* slicing a View is the number of its window's indices that are inside the
\* live target.
C9_SliceFollowsTarget ==
    (view.kind = "View" /\ other.kind # "none") =>
        length(other) =
            Cardinality({k \in 1..Len(Window(other)) : ~Stale(target, Window(other)[k])})

\* C9 amended: slicing a View gives a WindowedView over the same target; its
\* length is the number of indices the slice resolved to when it was taken,
\* and stays so however the target shrinks and grows afterwards.
C9_SliceFrozen ==
    (view.kind = "View" /\ other.kind # "none") =>
        /\ other.kind = "WindowedView"
        /\ other.tgt = view.tgt
        /\ length(other) = Len(ref)
        /\ result.op = "len" => result.val = Len(ref)

\* a slice of a View, the target shrunk below it, and len() asked
C9_Witness ==
    /\ view.kind = "View"
    /\ other.depth = 1
    /\ changed
    /\ Len(target) < Len(ref)
    /\ result.op = "len"
    /\ result.val = Len(ref)

-----------------------------------------------------------------------------
(* Comparing two views *)

\* the second target changing from beneath
Resize2To(t) ==
    /\ target2' = t
    /\ result' = NoResult
    /\ changed' = TRUE
    /\ UNCHANGED <<target, lists, view, other, dyn, gen, win0, ref>>

\* append to / pop from either target
EqAppend ==
    \E e \in Elem :
        \/ Len(target) < EqLen /\ ResizeTo(Append(target, e))
        \/ Len(target2) < EqLen /\ Resize2To(Append(target2, e))

EqPop ==
    \/ Len(target) > 0 /\ ResizeTo(SubSeq(target, 1, Len(target) - 1))
    \/ Len(target2) > 0 /\ Resize2To(SubSeq(target2, 1, Len(target2) - 1))

\* view == other
Eq ==
    /\ result' = View__eq__(view, other)
    /\ UNCHANGED <<target, target2, lists, view, other, dyn, gen, win0, ref, changed>>

\* the windows a compared WindowedView is built with: the default one, or
\* range(len(t) - 1, -1, -1)
EqWindows(t) == {DefaultWindow(t), RangeSeq(Len(t) - 1, 0 - 1, 0 - 1)}

InitEq ==
    \E t1 \in SeqsUpTo(Elem, EqLen), t2 \in SeqsUpTo(Elem, EqLen),
       ka \in {"View", "WindowedView"}, kb \in {"View", "WindowedView"},
       ta \in {1, 2} :
        LET tga == IF ta = 1 THEN t1 ELSE t2
        IN  \E wa \in EqWindows(tga), wb \in EqWindows(t2) :
                /\ target = t1
                /\ target2 = t2
                /\ lists = [NoLists EXCEPT !.win = IF ka = "View" THEN <<>> ELSE wa,
                                           !.win2 = IF kb = "View" THEN <<>> ELSE wb]
                /\ view = [NoView EXCEPT !.kind = ka, !.tgt = ta,
                                         !.window = IF ka = "View" THEN "none" ELSE "win"]
                /\ other = [NoView EXCEPT !.kind = kb, !.tgt = 2,
                                          !.window = IF kb = "View" THEN "none" ELSE "win2"]
                /\ dyn = NoDyn
                /\ gen = NoGen
                /\ result = NoResult
                /\ win0 = <<>>
                /\ ref = <<>>
                /\ changed = FALSE

NextEq ==
    \/ EqAppend
    \/ EqPop
    \/ Eq

SpecEq == InitEq /\ [][NextEq]_vars

\* the entries of v's window that lie inside the live target (every position
\* of the target for a View), in order
RECURSIVE LiveEntries(_, _)
LiveEntries(w, t) ==
    IF w = <<>> THEN <<>>
    ELSE IF Stale(t, Head(w)) THEN LiveEntries(Tail(w), t)
    ELSE <<Head(w)>> \o LiveEntries(Tail(w), t)

\* the element sequence v shows now
Visible(v) ==
    IF v.kind = "View" THEN Tgt(v)
    ELSE LET live == LiveEntries(Window(v), Tgt(v))
         IN  [k \in 1..Len(live) |-> ElemAt(Tgt(v), live[k])]

\* no entry of v's window lies outside the live target
NoStale(v) ==
    v.kind = "View" \/ \A k \in 1..Len(Window(v)) : ~Stale(Tgt(v), Window(v)[k])

\* C6 as stated: for any two views, == returns true when the element
\* sequences they show now are equal, and false otherwise.
C6_EqStructural ==
    result.op = "eq" =>
        /\ result.out = "value"
        /\ result.val = IF Visible(view) = Visible(other) THEN 1 ELSE 0

\* C6 amended: for two views none of whose window entries lies outside its
\* live target, == returns true when the element sequences they show are
\* equal and false otherwise, whatever the targets, the classes and the
\* windows; with an entry outside its target, == never returns true: it
\* returns false or raises WindowingIndexError.
C6_EqNoStale ==
    result.op = "eq" =>
        IF NoStale(view) /\ NoStale(other)
        THEN /\ result.out = "value"
             /\ result.val = IF Visible(view) = Visible(other) THEN 1 ELSE 0
        ELSE \/ result.out = "value" /\ result.val = 0
             \/ result.out = "WindowingIndexError"

\* a View and a reversed WindowedView over different, resized targets show
\* the same two elements and compare equal
C6_Witness ==
    /\ result.op = "eq"
    /\ result.val = 1
    /\ changed
    /\ view.kind = "View" /\ view.tgt = 1
    /\ other.kind = "WindowedView"
    /\ Window(other) = <<1, 0>>
    /\ target = <<1, 2>>
    /\ target2 = <<2, 1>>

-----------------------------------------------------------------------------
(* A View with an open window (start, stop, step), resolved against the    *)
(* live target on every query                                              *)

\* a wrong resolution: start is clamped to the bound like stop is
IndexResolver_clamp(w, L) ==
    LET c == SliceIndices(w, L)
    IN  [start |-> c.start, stop |-> c.stop, step |-> c.step]

\* IndexResolver: (window spec, target length L) -> (start', stop', step'),
\* step # 0.  A start outside the domain is moved to the nearest position
\* of its own stride inside it; a stop outside the domain is clamped
IndexResolver(w, L) ==
    LET step  == IF w.step = None THEN 1 ELSE w.step
        lower == IF step > 0 THEN 0 ELSE 0 - 1
        upper == IF step > 0 THEN L ELSE L - 1
        start == IF w.start = None THEN (IF step < 0 THEN upper ELSE lower)
                 ELSE IF w.start < 0
                      THEN IF w.start + L < lower
                           THEN lower + PyMod(w.start + L - lower, step)
                           ELSE w.start + L
                 ELSE IF w.start > upper
                      THEN upper + PyMod(w.start - upper, step)
                      ELSE w.start
        stop  == IF w.stop = None THEN (IF step < 0 THEN lower ELSE upper)
                 ELSE IF w.stop < 0 THEN Max(w.stop + L, lower)
                 ELSE Min(w.stop, upper)
    IN  [start |-> start, stop |-> stop, step |-> step]

\* View.subwindow(): the range the window resolves to now
subwindow(w, tgt) ==
    LET r == IndexResolver(w, Len(tgt))
    IN  RangeSeq(r.start, r.stop, r.step)

\* View.length() of a View with a window
DynLength(w, tgt) ==
    IF w.step = 0 THEN Raised("length", None, "InvalidStep")
    ELSE Returned("length", None, Len(subwindow(w, tgt)))

\* view.length() on the View with a window
DynLen ==
    /\ result' = DynLength(dyn, target)
    /\ UNCHANGED <<target, target2, lists, view, other, dyn, gen, win0, ref, changed>>

\* view.subwindow() on the View with a window; the length of the range is kept
DynSubwindow ==
    /\ dyn.step # 0
    /\ result' = Returned("subwindow", None, Len(subwindow(dyn, target)))
    /\ UNCHANGED <<target, target2, lists, view, other, dyn, gen, win0, ref, changed>>

\* len(view) on the plain View over the same target
ViewLen ==
    /\ result' = Returned("len", None, View__len__(Tgt(view)))
    /\ UNCHANGED <<target, target2, lists, view, other, dyn, gen, win0, ref, changed>>

OffN == {None} \cup ((0 - MaxLen - MaxOff)..(MaxLen + MaxOff))
OpenWindows == [start : OffN, stop : OffN, step : Steps \cup {0}]

InitWindow ==
    \E t \in Targets, w \in OpenWindows :
        /\ target = t
        /\ target2 = <<>>
        /\ lists = NoLists
        /\ view = [NoView EXCEPT !.kind = "View"]
        /\ other = NoView
        /\ dyn = w
        /\ gen = NoGen
        /\ result = NoResult
        /\ win0 = [i \in 1..Len(t) |-> i - 1]
        /\ ref = <<>>
        /\ changed = FALSE

NextWindow ==
    \/ TargetAppend
    \/ TargetPop
    \/ TargetDelFront
    \/ DynLen
    \/ DynSubwindow
    \/ ViewLen

SpecWindow == InitWindow /\ [][NextWindow]_vars

\* the positions 0..L-1 of a target of length L the open window w denotes: a
\* negative bound counts from the end of the target, an absent one is the
\* end of the target in the direction of the step; p is denoted when whole
\* steps lead from the start to p and p lies before the stop
Denoted(w, L) ==
    LET step == IF w.step = None THEN 1 ELSE w.step
        from == IF w.start = None THEN (IF step > 0 THEN 0 ELSE L - 1)
                ELSE IF w.start < 0 THEN w.start + L ELSE w.start
        to   == IF w.stop = None THEN (IF step > 0 THEN L ELSE 0 - 1)
                ELSE IF w.stop < 0 THEN w.stop + L ELSE w.stop
    IN  {p \in 0..(L - 1) :
            /\ IF step > 0 THEN p >= from /\ p < to ELSE p <= from /\ p > to
            /\ (IF step > 0 THEN p - from ELSE from - p)
                   % (IF step > 0 THEN step ELSE 0 - step) = 0}

RECURSIVE ValidEntries(_, _)
ValidEntries(w, t) ==
    IF w = <<>> THEN <<>>
    ELSE IF Stale(t, Head(w)) THEN ValidEntries(Tail(w), t)
    ELSE <<Head(w)>> \o ValidEntries(Tail(w), t)

\* C8: subwindow() of the window range(start, stop, step) over a target of
\* length L holds only indices in [-L, L) and is exactly the indices of the
\* window that are valid for the target, in the window's order (so a window
\* wholly inside the target resolves to itself).
C8_SubwindowExact ==
    (result.op = "subwindow" /\ dyn.start # None /\ dyn.stop # None /\ dyn.step # None) =>
        /\ \A k \in 1..Len(subwindow(dyn, target)) :
               ~Stale(target, subwindow(dyn, target)[k])
        /\ subwindow(dyn, target) =
               ValidEntries(RangeSeq(dyn.start, dyn.stop, dyn.step), target)

====
